---- MODULE Spec2Model ----
(***************************************************************************)
(* Model of api/app.py: the credit-metered background-removal endpoint.    *)
(* One request = one run of remove_background; the ledger is the Supabase  *)
(* table wondr_users, read with GET and overwritten with PATCH.            *)
(* Strings are sequences of atoms: "Bearer", " ", "," and named blocks.    *)
(***************************************************************************)
EXTENDS Integers, Sequences, FiniteSets, TLC

VARIABLES ledger, ledger0, reliable, bg_remover,
          pc, authorization, data_sent, b64_text, user_email, current_credits,
          remaining_credits, callsite, response, trace

vars == <<ledger, ledger0, reliable, bg_remover,
          pc, authorization, data_sent, b64_text, user_email, current_credits,
          remaining_credits, callsite, response, trace>>

env == <<ledger0, reliable, bg_remover>>

\* ---------------------------------------------------------------- bounds
MaxBalance == 2

\* the concurrent runs of remove_background that are followed
Requests == {"r1", "r2"}

\* the rows of wondr_users
Accounts == {"u1"}

\* ------------------------------------------------------------ exceptions
HTTPException(status_code, detail) ==
    [cls |-> "HTTPException", status |-> status_code, detail |-> detail]

\* httpx.TransportError raised by client.get / client.patch
TransportError ==
    [cls |-> "TransportError", status |-> 0, detail |-> "transport error"]

NoException == [cls |-> "None", status |-> 0, detail |-> ""]

\* `except HTTPException`
CatchHTTPException(exc) == exc.cls = "HTTPException"

\* `except Exception`: HTTPException and httpx errors both derive from it
CatchException(exc) == exc.cls \in {"HTTPException", "TransportError"}

NoResponse == [status |-> 0, detail |-> "", remaining_credits |-> -1]

\* what the caller gets for an exception leaving the handler: FastAPI turns
\* an HTTPException into its status and detail, anything else into a 500
ErrorResponse(exc) ==
    IF exc.cls = "HTTPException"
    THEN [status |-> exc.status, detail |-> exc.detail, remaining_credits |-> -1]
    ELSE [status |-> 500, detail |-> "Internal Server Error", remaining_credits |-> -1]

\* --------------------------------------------------------------- strings
RECURSIVE Split(_, _)
\* str.split(sep): the list of segments between the separators
Split(s, sep) ==
    IF s = <<>> THEN << <<>> >>
    ELSE LET rest == Split(Tail(s), sep) IN
         IF Head(s) = sep THEN << <<>> >> \o rest
         ELSE << <<Head(s)>> \o rest[1] >> \o Tail(rest)

\* authorization.startswith("Bearer ")
StartsWithBearer(s) == Len(s) >= 2 /\ s[1] = "Bearer" /\ s[2] = " "

RECURSIVE CountOf(_, _)
CountOf(s, a) ==
    IF s = <<>> THEN 0
    ELSE (IF Head(s) = a THEN 1 ELSE 0) + CountOf(Tail(s), a)

\* ------------------------------------------------------------ credentials
\* the Authorization header: absent (None) or a string
Header(s) == [none |-> FALSE, s |-> s]
NoHeader == [none |-> TRUE, s |-> <<>>]

Credentials ==
    { NoHeader,
      Header(<<>>),
      Header(<<"tGood">>),
      Header(<<"Basic", " ", "tGood">>),
      Header(<<"Bearer", " ">>),
      Header(<<"Bearer", " ", " ", "tGood">>),
      Header(<<"Bearer", " ", "tGood">>),
      Header(<<"Bearer", " ", "tGhost">>),
      Header(<<"Bearer", " ", "tExpired">>),
      Header(<<"Bearer", " ", "tBadSig">>),
      Header(<<"Bearer", " ", "tBadSigExpired">>),
      Header(<<"Bearer", " ", "tNoEmail">>),
      Header(<<"Bearer", " ", "tGarbage">>) }

\* what the issuer put into each token: whether the HS256 signature matches
\* SUPABASE_JWT_SECRET, whether exp has passed, the email claim ("" = none)
TokenTable ==
    [ tGood          |-> [sig |-> TRUE,  expired |-> FALSE, email |-> "u1"],
      tGhost         |-> [sig |-> TRUE,  expired |-> FALSE, email |-> "ghost"],
      tExpired       |-> [sig |-> TRUE,  expired |-> TRUE,  email |-> "u1"],
      tBadSig        |-> [sig |-> FALSE, expired |-> FALSE, email |-> "u1"],
      tBadSigExpired |-> [sig |-> FALSE, expired |-> TRUE,  email |-> "u1"],
      tNoEmail       |-> [sig |-> TRUE,  expired |-> FALSE, email |-> ""] ]

\* jwt.decode(token, secret, algorithms=["HS256"], options={"verify_aud": False})
\* with the expiry check left out
JwtDecode_noexp(token) ==
    IF Len(token) # 1 \/ token[1] \notin DOMAIN TokenTable
    THEN [exc |-> "DecodeError", email |-> ""]
    ELSE LET t == TokenTable[token[1]] IN
         IF ~t.sig THEN [exc |-> "InvalidSignatureError", email |-> ""]
         ELSE [exc |-> "None", email |-> t.email]

\* jwt.decode(token, secret, algorithms=["HS256"], options={"verify_aud": False}):
\* the segments are parsed, then the signature is verified, then exp
JwtDecode(token) ==
    IF Len(token) # 1 \/ token[1] \notin DOMAIN TokenTable
    THEN [exc |-> "DecodeError", email |-> ""]
    ELSE LET t == TokenTable[token[1]] IN
         IF ~t.sig THEN [exc |-> "InvalidSignatureError", email |-> ""]
         ELSE IF t.expired THEN [exc |-> "ExpiredSignatureError", email |-> ""]
         ELSE [exc |-> "None", email |-> t.email]

\* steps 1 and 2 with a single `except jwt.InvalidTokenError`, which also
\* catches its subclass ExpiredSignatureError
VerifyToken_oneclause(auth) ==
    IF auth.none \/ auth.s = <<>>
    THEN [exc |-> HTTPException(100, "Missing authorization"), email |-> ""]
    ELSE IF ~StartsWithBearer(auth.s)
    THEN [exc |-> HTTPException(100, "Invalid authorization format"), email |-> ""]
    ELSE LET token == Split(auth.s, " ")[2]
             d == JwtDecode(token) IN
         IF d.exc # "None"
         THEN [exc |-> HTTPException(100, "Invalid token"), email |-> ""]
         ELSE IF d.email = ""
         THEN [exc |-> HTTPException(100, "Invalid token payload"), email |-> ""]
         ELSE [exc |-> NoException, email |-> d.email]

\* steps 1 and 2 of remove_background
VerifyToken(auth) ==
    IF auth.none \/ auth.s = <<>>
    THEN [exc |-> HTTPException(100, "Missing authorization"), email |-> ""]
    ELSE IF ~StartsWithBearer(auth.s)
    THEN [exc |-> HTTPException(100, "Invalid authorization format"), email |-> ""]
    ELSE LET token == Split(auth.s, " ")[2]
             d == JwtDecode(token) IN
         IF d.exc = "ExpiredSignatureError"
         THEN [exc |-> HTTPException(100, "Token expired"), email |-> ""]
         ELSE IF d.exc # "None"
         THEN [exc |-> HTTPException(100, "Invalid token"), email |-> ""]
         ELSE IF d.email = ""
         THEN [exc |-> HTTPException(100, "Invalid token payload"), email |-> ""]
         ELSE [exc |-> NoException, email |-> d.email]

\* ---------------------------------------------------------------- payloads
Payloads ==
    { <<"PNG">>,
      <<"hdr", ",", "PNGA">>,
      <<"hdr", ",", ",", "PNG">>,
      <<"hdr", ",", "PNG", ",", "JUNK">>,
      <<"hdr">> }

\* base64 text that decodes to whole bytes: an RGB image, an RGBA image,
\* bytes that are no image
IsB64Block(a) == a \in {"PNG", "PNGA", "JUNK"}

\* base64.b64decode(text): characters outside the alphabet (the comma) are
\* dropped; "hdr" is "data:image/png;base64", 19 alphabet characters, which
\* leaves the input with incorrect padding
B64Decode(text) ==
    IF (19 * CountOf(text, "hdr")) % 4 # 0
    THEN [exc |-> TRUE, bytes |-> <<>>]
    ELSE [exc |-> FALSE, bytes |-> SelectSeq(text, IsB64Block)]

\* Image.open(BytesIO(img_data)): the format is identified from the head
ImageOpen(bytes) ==
    IF bytes = <<>> \/ bytes[1] \notin {"PNG", "PNGA"}
    THEN [exc |-> TRUE, mode |-> ""]
    ELSE [exc |-> FALSE, mode |-> IF bytes[1] = "PNG" THEN "RGB" ELSE "RGBA"]

\* step 4 of remove_background: the text handed to base64.b64decode,
\* data_sent.split(",")[1] when data_sent holds a comma
PayloadText(payload) ==
    IF CountOf(payload, ",") > 0
    THEN Split(payload, ",")[2]
    ELSE payload

\* step 4 of remove_background: pick the base64 text, decode, open, convert
DecodeImage(payload) ==
    LET text == PayloadText(payload)
        b == B64Decode(text)
        img == ImageOpen(b.bytes) IN
    IF b.exc \/ img.exc
    THEN [exc |-> TRUE, mode |-> ""]
    ELSE [exc |-> FALSE, mode |-> "RGB"]

\* ------------------------------------------------------------------ ledger
\* how the ledger service answers a GET / a PATCH
GetOutcomes == IF reliable THEN {"ok"} ELSE {"ok", "status", "transport"}
PatchOutcomes ==
    IF reliable THEN {"ok"}
    ELSE {"ok", "status", "transport_lost", "transport_applied"}

\* the PATCH reached the table
Applied(out) == out \in {"ok", "transport_applied"}

\* the answer to a PATCH as it appears in the trace
PatchEvent ==
    [ ok                |-> "patch_ok",
      status            |-> "patch_rejected",
      transport_lost    |-> "patch_lost",
      transport_applied |-> "patch_unanswered" ]

StatusRejected_never(out) == FALSE
\* deduct_credit: `if response.status_code not in [200, 204]`
StatusRejected(out) == out = "status"

get_user_credits(email, out) ==
    IF out = "transport" THEN [exc |-> TransportError, credits |-> 0]
    ELSE IF out = "status"
    THEN [exc |-> HTTPException(300, "Failed to connect to Supabase"), credits |-> 0]
    ELSE IF email \notin DOMAIN ledger
    THEN [exc |-> HTTPException(300, "User not found in database"), credits |-> 0]
    ELSE [exc |-> NoException, credits |-> ledger[email]]

Insufficient_strict(current) == current < 0
\* deduct_credit: `if current_credits <= 0`
Insufficient(current) == current <= 0

NewCredits_same(current) == current
NewCredits_two(current) == current - 2
\* deduct_credit: new_credits = current_credits - 1
NewCredits(current) == current - 1

RefundCredits_same(current) == current
\* refund_credit: json={"rembg_credits": current_credits + 1}
RefundCredits(current) == current + 1

refund_credit_catches_reraise(exc) == ~CatchHTTPException(exc)
\* refund_credit: `except Exception as e` around the whole body
refund_credit_catches(exc) == CatchException(exc)

\* step 3 of remove_background: `except HTTPException: raise`, anything else
\* becomes the 300 "Credit system error"
ChargeError(exc) ==
    IF CatchHTTPException(exc) THEN exc
    ELSE HTTPException(300, "Credit system error")

\* ----------------------------------------------------------------- helpers
Log(r, evs) == trace' = [trace EXCEPT ![r] = @ \o evs]

\* an exception leaves remove_background
Raise(r, exc, evs) ==
    /\ pc' = [pc EXCEPT ![r] = "Errored"]
    /\ response' = [response EXCEPT ![r] = ErrorResponse(exc)]
    /\ Log(r, evs \o <<"error">>)

\* `await refund_credit(user_email)` at one of the three call sites
CallRefund(r, site, evs) ==
    /\ pc' = [pc EXCEPT ![r] = "refund_read"]
    /\ callsite' = [callsite EXCEPT ![r] = site]
    /\ Log(r, evs \o <<"refund_call">>)
    /\ UNCHANGED response

\* refund_credit returned (exc = NoException) or raised exc at its call site
AfterRefund(r, exc, evs) ==
    IF callsite[r] = "decode"
    THEN \* line 300-301, inside the except block of step 4
         /\ Raise(r, IF exc = NoException
                     THEN HTTPException(500, "Invalid image data") ELSE exc, evs)
         /\ UNCHANGED callsite
    ELSE IF callsite[r] = "model"
    THEN \* line 310-311, inside the try of step 5: whatever is raised here is
         \* caught by `except Exception` at line 352, which refunds
         LET raised == IF exc = NoException
                       THEN HTTPException(500, "Model not loaded") ELSE exc IN
         IF CatchException(raised)
         THEN CallRefund(r, "processing", evs \o <<"processing_failed">>)
         ELSE Raise(r, raised, evs) /\ UNCHANGED callsite
    ELSE \* line 355-356, inside the except block of step 5
         /\ Raise(r, IF exc = NoException
                     THEN HTTPException(500, "Processing failed") ELSE exc, evs)
         /\ UNCHANGED callsite

\* -------------------------------------------------------------------- Init
Init ==
    /\ ledger0 \in [Accounts -> 0..MaxBalance]
    /\ ledger = ledger0
    /\ reliable \in BOOLEAN
    /\ bg_remover \in {"loaded", "None"}
    /\ pc = [r \in Requests |-> "idle"]
    /\ authorization = [r \in Requests |-> NoHeader]
    /\ data_sent = [r \in Requests |-> <<>>]
    /\ b64_text = [r \in Requests |-> <<>>]
    /\ user_email = [r \in Requests |-> ""]
    /\ current_credits = [r \in Requests |-> 0]
    /\ remaining_credits = [r \in Requests |-> 0]
    /\ callsite = [r \in Requests |-> "none"]
    /\ response = [r \in Requests |-> NoResponse]
    /\ trace = [r \in Requests |-> <<>>]

\* ----------------------------------------------------------------- actions
\* the handler run again for a request that ended Errored
Receive_retry(r) ==
    /\ pc[r] \in {"idle", "Errored"}
    /\ pc' = [pc EXCEPT ![r] = "auth"]
    /\ Log(r, <<"received">>)
    /\ UNCHANGED <<ledger, env, authorization, data_sent, b64_text, user_email,
                   current_credits, remaining_credits, callsite, response>>

\* the request reaches the handler
Receive(r) ==
    /\ pc[r] = "idle"
    /\ pc' = [pc EXCEPT ![r] = "auth"]
    /\ Log(r, <<"received">>)
    /\ UNCHANGED <<ledger, env, authorization, data_sent, b64_text, user_email,
                   current_credits, remaining_credits, callsite, response>>

\* steps 1-2, continuing at pc value `next`
AuthenticateTo(r, next) ==
    /\ pc[r] = "auth"
    /\ \E a \in Credentials :
         LET v == VerifyToken(a) IN
         /\ authorization' = [authorization EXCEPT ![r] = a]
         /\ IF v.exc # NoException
            THEN /\ Raise(r, v.exc, <<"auth_fail">>)
                 /\ UNCHANGED user_email
            ELSE /\ pc' = [pc EXCEPT ![r] = next]
                 /\ user_email' = [user_email EXCEPT ![r] = v.email]
                 /\ Log(r, <<"auth_ok">>)
                 /\ UNCHANGED response
    /\ UNCHANGED <<ledger, env, data_sent, b64_text, current_credits,
                   remaining_credits, callsite>>

Authenticate_then_decode(r) == AuthenticateTo(r, "decode")
\* steps 1-2 are followed by step 3, the charge
Authenticate(r) == AuthenticateTo(r, "charge_read")

\* deduct_credit up to the PATCH: the balance read and the sufficiency check
ChargeRead(r) ==
    /\ pc[r] = "charge_read"
    /\ \E out \in GetOutcomes :
         LET g == get_user_credits(user_email[r], out) IN
         IF g.exc # NoException
         THEN /\ Raise(r, ChargeError(g.exc),
                       <<"charge_call", "charge_read", "charge_read_fail",
                         "charge_fail">>)
              /\ UNCHANGED current_credits
         ELSE IF Insufficient(g.credits)
         THEN /\ Raise(r, ChargeError(HTTPException(400, "No credits remaining")),
                       <<"charge_call", "charge_read", "charge_fail">>)
              /\ current_credits' = [current_credits EXCEPT ![r] = g.credits]
         ELSE /\ pc' = [pc EXCEPT ![r] = "charge_write"]
              /\ current_credits' = [current_credits EXCEPT ![r] = g.credits]
              /\ Log(r, <<"charge_call", "charge_read">>)
              /\ UNCHANGED response
    /\ UNCHANGED <<ledger, env, authorization, data_sent, b64_text, user_email,
                   remaining_credits, callsite>>

\* the PATCH of deduct_credit writing new_value, and its status check
ChargeWriteValue(r, new_value) ==
    /\ pc[r] = "charge_write"
    /\ \E out \in PatchOutcomes :
         /\ ledger' = IF Applied(out)
                      THEN [ledger EXCEPT ![user_email[r]] = new_value]
                      ELSE ledger
         /\ IF out \in {"transport_lost", "transport_applied"}
            THEN /\ Raise(r, ChargeError(TransportError),
                          <<"charge_write", PatchEvent[out], "charge_fail">>)
                 /\ UNCHANGED remaining_credits
            ELSE IF StatusRejected(out)
            THEN /\ Raise(r, ChargeError(HTTPException(300, "Failed to update credits")),
                          <<"charge_write", PatchEvent[out], "charge_fail">>)
                 /\ UNCHANGED remaining_credits
            ELSE /\ pc' = [pc EXCEPT ![r] = "decode"]
                 /\ remaining_credits' = [remaining_credits EXCEPT ![r] = new_value]
                 /\ Log(r, <<"charge_write", PatchEvent[out], "charge_ok">>)
                 /\ UNCHANGED response
    /\ UNCHANGED <<env, authorization, data_sent, b64_text, user_email,
                   current_credits, callsite>>

ChargeWrite_atomic(r) ==
    ChargeWriteValue(r, IF pc[r] = "charge_write"
                        THEN ledger[user_email[r]] - 1 ELSE 0)
\* deduct_credit writes the value computed from its own earlier read
ChargeWrite(r) == ChargeWriteValue(r, NewCredits(current_credits[r]))

\* step 4; refund on failure: TRUE as in the code
DecodeStep(r, refund) ==
    /\ pc[r] = "decode"
    /\ \E p \in Payloads :
         /\ data_sent' = [data_sent EXCEPT ![r] = p]
         /\ b64_text' = [b64_text EXCEPT ![r] = PayloadText(p)]
         /\ IF DecodeImage(p).exc
            THEN IF refund
                 THEN CallRefund(r, "decode", <<"decode_fail">>)
                 ELSE /\ Raise(r, HTTPException(500, "Invalid image data"),
                               <<"decode_fail">>)
                      /\ UNCHANGED callsite
            ELSE /\ pc' = [pc EXCEPT ![r] = "process"]
                 /\ Log(r, <<"decode_ok">>)
                 /\ UNCHANGED <<response, callsite>>
    /\ UNCHANGED <<ledger, env, authorization, user_email, current_credits,
                   remaining_credits>>

Decode_norefund(r) == DecodeStep(r, FALSE)
\* step 4 of remove_background
Decode(r) == DecodeStep(r, TRUE)

\* step 5, `if bg_remover is None`
ModelNotLoaded(r) ==
    /\ pc[r] = "process"
    /\ bg_remover = "None"
    /\ CallRefund(r, "model", <<"model_missing">>)
    /\ UNCHANGED <<ledger, env, authorization, data_sent, b64_text, user_email,
                   current_credits, remaining_credits>>

\* step 5, bg_remover.remove_background(input_image) returns or raises
Transform(r) ==
    /\ pc[r] = "process"
    /\ bg_remover # "None"
    /\ \E out \in {"ok", "raise"} :
         IF out = "ok"
         THEN /\ pc' = [pc EXCEPT ![r] = "encode"]
              /\ Log(r, <<"transform_ok">>)
              /\ UNCHANGED <<response, callsite>>
         ELSE CallRefund(r, "processing", <<"transform_fail", "processing_failed">>)
    /\ UNCHANGED <<ledger, env, authorization, data_sent, b64_text, user_email,
                   current_credits, remaining_credits>>

\* steps 6-7 and the return: output_image.save(...) succeeds or raises
Encode(r) ==
    /\ pc[r] = "encode"
    /\ \E out \in {"ok", "raise"} :
         IF out = "ok"
         THEN /\ pc' = [pc EXCEPT ![r] = "Responded"]
              /\ response' = [response EXCEPT ![r] =
                    [status |-> 200, detail |-> "data_received",
                     remaining_credits |-> remaining_credits[r]]]
              /\ Log(r, <<"encode_ok", "respond">>)
              /\ UNCHANGED callsite
         ELSE CallRefund(r, "processing", <<"encode_fail", "processing_failed">>)
    /\ UNCHANGED <<ledger, env, authorization, data_sent, b64_text, user_email,
                   current_credits, remaining_credits>>

\* refund_credit: the balance read
RefundRead(r) ==
    /\ pc[r] = "refund_read"
    /\ \E out \in GetOutcomes :
         LET g == get_user_credits(user_email[r], out) IN
         IF g.exc # NoException
         THEN /\ IF refund_credit_catches(g.exc)
                 THEN AfterRefund(r, NoException, <<"refund_read", "refund_failed">>)
                 ELSE AfterRefund(r, g.exc, <<"refund_read", "refund_raised">>)
              /\ UNCHANGED current_credits
         ELSE /\ pc' = [pc EXCEPT ![r] = "refund_write"]
              /\ current_credits' = [current_credits EXCEPT ![r] = g.credits]
              /\ Log(r, <<"refund_read">>)
              /\ UNCHANGED <<response, callsite>>
    /\ UNCHANGED <<ledger, env, authorization, data_sent, b64_text, user_email,
                   remaining_credits>>

\* refund_credit: the PATCH, whose status is not looked at
RefundWrite(r) ==
    /\ pc[r] = "refund_write"
    /\ \E out \in PatchOutcomes :
         /\ ledger' = IF Applied(out)
                      THEN [ledger EXCEPT ![user_email[r]] =
                                RefundCredits(current_credits[r])]
                      ELSE ledger
         /\ IF out \in {"ok", "status"}
            THEN AfterRefund(r, NoException,
                             <<"refund_write", PatchEvent[out], "refund_ok">>)
            ELSE IF refund_credit_catches(TransportError)
            THEN AfterRefund(r, NoException,
                             <<"refund_write", PatchEvent[out], "refund_failed">>)
            ELSE AfterRefund(r, TransportError,
                             <<"refund_write", PatchEvent[out], "refund_raised">>)
    /\ UNCHANGED <<env, authorization, data_sent, b64_text, user_email,
                   current_credits, remaining_credits>>

Next ==
    \E r \in Requests :
        \/ Receive(r)
        \/ Authenticate(r)
        \/ ChargeRead(r)
        \/ ChargeWrite(r)
        \/ Decode(r)
        \/ ModelNotLoaded(r)
        \/ Transform(r)
        \/ Encode(r)
        \/ RefundRead(r)
        \/ RefundWrite(r)

Spec == Init /\ [][Next]_vars

\* one step of the handler run of request r; every awaited call returns
Step(r) ==
    \/ Authenticate(r)
    \/ ChargeRead(r)
    \/ ChargeWrite(r)
    \/ Decode(r)
    \/ ModelNotLoaded(r)
    \/ Transform(r)
    \/ Encode(r)
    \/ RefundRead(r)
    \/ RefundWrite(r)

\* the event loop keeps running every handler that can take a step
FairSpec == Spec /\ \A r \in Requests : WF_vars(Step(r))

\* ------------------------------------------------------- reading the trace
Has(r, e) == \E i \in 1..Len(trace[r]) : trace[r][i] = e
Count(r, e) == CountOf(trace[r], e)
\* every occurrence of `later` has an occurrence of `earlier` before it
Precedes(r, earlier, later) ==
    \A i \in 1..Len(trace[r]) :
        trace[r][i] = later => \E j \in 1..(i-1) : trace[r][j] = earlier
Done(r) == pc[r] \in {"Responded", "Errored"}
\* no other request has reached the handler
Alone(r) == \A q \in Requests \ {r} : pc[q] = "idle"
\* a step after the charge failed
FailedAfterCharge(r) ==
    Has(r, "decode_fail") \/ Has(r, "model_missing")
        \/ Has(r, "transform_fail") \/ Has(r, "encode_fail")
LedgerEvents ==
    {"charge_call", "charge_read", "charge_write",
     "refund_call", "refund_read", "refund_write"}
NoLedgerWrite(r) == ~Has(r, "charge_write") /\ ~Has(r, "refund_write")

\* ------------------------------------------------------------------ claims
\* C1: a request running alone against a reliable ledger, for an account
\* with balance b > 0, whose decode, transform and encode all succeeded, has
\* ended Responded with the ledger at b - 1 and remaining_credits = b - 1.
C1_SuccessChargesOne ==
    \A r \in Requests :
        (/\ Alone(r) /\ reliable /\ Done(r)
         /\ user_email[r] = "u1" /\ ledger0["u1"] > 0
         /\ Has(r, "decode_ok") /\ Has(r, "transform_ok") /\ Has(r, "encode_ok"))
        => /\ pc[r] = "Responded"
           /\ response[r].status = 200
           /\ ledger["u1"] = ledger0["u1"] - 1
           /\ response[r].remaining_credits = ledger0["u1"] - 1

C1_Witness ==
    \E r \in Requests :
        /\ Alone(r) /\ reliable /\ pc[r] = "Responded"
        /\ ledger0["u1"] = 2 /\ ledger["u1"] = 1
        /\ response[r].remaining_credits = 1

\* C2: alone against a reliable ledger, a request that was charged and then
\* failed in decode, in the transform call or in encode leaves the ledger at
\* the balance it had before the request.
C2_RefundRestores ==
    \A r \in Requests :
        (/\ Alone(r) /\ reliable /\ Done(r)
         /\ Has(r, "charge_ok")
         /\ (Has(r, "decode_fail") \/ Has(r, "transform_fail")
                \/ Has(r, "encode_fail")))
        => pc[r] = "Errored" /\ ledger = ledger0

C2_Witness ==
    \E r \in Requests :
        /\ Alone(r) /\ reliable /\ pc[r] = "Errored"
        /\ Has(r, "charge_ok") /\ Has(r, "encode_fail") /\ Has(r, "refund_ok")
        /\ ledger0["u1"] = 2 /\ ledger["u1"] = 2

\* C3: on every path of one request, the engine-not-loaded path included,
\* the charge is performed at most once and refund is invoked at most once.
C3_AtMostOnce ==
    \A r \in Requests :
        Count(r, "charge_call") <= 1 /\ Count(r, "refund_call") <= 1

\* C4: alone against a reliable ledger, a charged request that finds the
\* engine not loaded ends Errored with the ledger at the balance it had
\* before the request.
C4_EngineMissingRestores ==
    \A r \in Requests :
        (/\ Alone(r) /\ reliable /\ Done(r)
         /\ Has(r, "charge_ok") /\ Has(r, "model_missing"))
        => pc[r] = "Errored" /\ ledger = ledger0

\* C5: a request whose balance read returned a value <= 0 has failed with
\* the insufficient-credit error, has issued no ledger write and no refund,
\* and (when alone) has left the ledger as it was.
C5_InsufficientNoWrite ==
    \A r \in Requests :
        (/\ Has(r, "charge_read") /\ ~Has(r, "charge_read_fail")
         /\ ~Has(r, "refund_read")
         /\ current_credits[r] <= 0)
        => /\ pc[r] = "Errored"
           /\ response[r].status = 400
           /\ response[r].detail = "No credits remaining"
           /\ NoLedgerWrite(r) /\ ~Has(r, "refund_call")
           /\ (Alone(r) => ledger = ledger0)

C5_Witness ==
    \E r \in Requests :
        /\ Alone(r) /\ Has(r, "charge_read") /\ ~Has(r, "charge_read_fail")
        /\ current_credits[r] = 0 /\ ledger0["u1"] = 0
        /\ pc[r] = "Errored" /\ response[r].status = 400

\* C6: a refund is attempted only after the request's own charge succeeded
\* and a later step failed; a finished request has attempted a refund exactly
\* when it was charged and a later step failed; a Responded request has
\* attempted none.
C6_RefundIffChargedAndFailed ==
    \A r \in Requests :
        /\ Has(r, "refund_call") => Has(r, "charge_ok") /\ FailedAfterCharge(r)
        /\ Precedes(r, "charge_ok", "refund_call")
        /\ Done(r) =>
              (Has(r, "refund_call") <=> Has(r, "charge_ok") /\ FailedAfterCharge(r))
        /\ pc[r] = "Responded" => ~Has(r, "refund_call")

C6_Witness ==
    \E r \in Requests :
        /\ pc[r] = "Errored" /\ Has(r, "charge_ok") /\ Has(r, "decode_fail")
        /\ Has(r, "refund_call")

\* the credentials C7 speaks of: no header, no "Bearer " prefix, or a token
\* that is expired, wrongly signed or without the identity claim
C7_Rejected(a) ==
    \/ a.none
    \/ a.s = <<>>
    \/ ~(Len(a.s) >= 2 /\ a.s[1] = "Bearer" /\ a.s[2] = " ")
    \/ /\ Len(a.s) = 3
       /\ a.s[3] \in DOMAIN TokenTable
       /\ \/ TokenTable[a.s[3]].expired
          \/ ~TokenTable[a.s[3]].sig
          \/ TokenTable[a.s[3]].email = ""

\* C7: a request whose token verification failed has ended Errored without
\* any ledger read or write: no charge and no refund was attempted.
C7_AuthFailTouchesNothing ==
    \A r \in Requests :
        (pc[r] \notin {"idle", "auth"} /\ C7_Rejected(authorization[r]))
        => /\ pc[r] = "Errored"
           /\ response[r].status = 100
           /\ \A e \in LedgerEvents : ~Has(r, e)
           /\ (Alone(r) => ledger = ledger0)

C7_Witness ==
    \E r \in Requests :
        /\ pc[r] = "Errored"
        /\ authorization[r] = Header(<<"Bearer", " ", "tExpired">>)
        /\ response[r].detail = "Token expired"

\* C8: refund never raises to the handler: whatever happens to the refund's
\* read or write, the caller receives the error of the step that triggered
\* the refund (the decode error or the processing error).
C8_RefundNeverMasks ==
    \A r \in Requests :
        /\ ~Has(r, "refund_raised")
        /\ (pc[r] = "Errored" /\ Has(r, "refund_call")) =>
              /\ response[r].status = 500
              /\ response[r].detail =
                    IF Has(r, "decode_fail") THEN "Invalid image data"
                    ELSE "Processing failed"

C8_Witness ==
    \E r \in Requests :
        /\ pc[r] = "Errored" /\ Has(r, "decode_fail")
        /\ Has(r, "refund_read") /\ ~Has(r, "refund_write")
        /\ Has(r, "refund_failed")
        /\ response[r].detail = "Invalid image data"

\* C9: in one request token verification precedes the charge, the charge's
\* ledger write precedes decode, decode precedes the transform call,
\* transform precedes encode, encode precedes the response, and every refund
\* that was attempted has completed before the error is surfaced.
C9_StepOrder ==
    \A r \in Requests :
        /\ Precedes(r, "auth_ok", "charge_call")
        /\ Precedes(r, "charge_ok", "decode_ok")
        /\ Precedes(r, "charge_ok", "decode_fail")
        /\ Precedes(r, "charge_write", "charge_ok")
        /\ Precedes(r, "decode_ok", "transform_ok")
        /\ Precedes(r, "decode_ok", "transform_fail")
        /\ Precedes(r, "transform_ok", "encode_ok")
        /\ Precedes(r, "transform_ok", "encode_fail")
        /\ Precedes(r, "encode_ok", "respond")
        /\ \A i \in 1..Len(trace[r]) :
              trace[r][i] = "error" =>
                 /\ i = Len(trace[r])
                 /\ Count(r, "refund_call") =
                       Count(r, "refund_ok") + Count(r, "refund_failed")

C9_Witness ==
    \E r \in Requests :
        /\ pc[r] = "Errored" /\ Has(r, "transform_fail") /\ Has(r, "refund_ok")
        /\ trace[r][Len(trace[r])] = "error"

\* C10: when two concurrent requests of the same account both read the
\* starting balance b and both end Responded, both report b - 1 and the ledger
\* ends at b - 1: one of the two charges is lost. The witness is the
\* interleaving itself.
C10_LostUpdate ==
    (\A r \in Requests :
        /\ pc[r] = "Responded" /\ user_email[r] = "u1"
        /\ current_credits[r] = ledger0["u1"])
    => /\ ledger["u1"] = ledger0["u1"] - 1
       /\ \A r \in Requests : response[r].remaining_credits = ledger0["u1"] - 1

C10_Witness ==
    /\ ledger0["u1"] > 0
    /\ \A r \in Requests :
          /\ pc[r] = "Responded" /\ user_email[r] = "u1"
          /\ current_credits[r] = ledger0["u1"]
          /\ Count(r, "charge_write") = 1 /\ Has(r, "charge_ok")
          /\ response[r].remaining_credits = ledger0["u1"] - 1
    /\ ledger["u1"] = ledger0["u1"] - 1

\* the five inputs C11 speaks of
C11_Class(a) ==
    IF a.none \/ a.s = <<>> THEN "missing"
    ELSE IF ~(Len(a.s) >= 2 /\ a.s[1] = "Bearer" /\ a.s[2] = " ") THEN "noprefix"
    ELSE IF Len(a.s) = 3 /\ a.s[3] \in DOMAIN TokenTable
    THEN LET t == TokenTable[a.s[3]] IN
         IF t.sig /\ t.expired THEN "expired"
         ELSE IF ~t.sig /\ ~t.expired THEN "badsig"
         ELSE IF t.sig /\ ~t.expired /\ t.email = "" THEN "noclaim"
         ELSE "other"
    ELSE "other"

Verified(r) == pc[r] \notin {"idle", "auth"}

\* C11: an absent or empty credential, one without the "Bearer " prefix, an
\* expired token, a wrongly signed token and a token without the identity
\* claim are all rejected, and two requests rejected for two different ones
\* of these inputs are given different reasons.
C11_DistinctReasons ==
    \A r \in Requests :
        (Verified(r) /\ C11_Class(authorization[r]) # "other") =>
            /\ pc[r] = "Errored"
            /\ response[r].detail # ""
            /\ \A q \in Requests :
                  (/\ Verified(q)
                   /\ C11_Class(authorization[q]) # "other"
                   /\ C11_Class(authorization[q]) # C11_Class(authorization[r]))
                  => response[q].detail # response[r].detail

C11_Witness ==
    /\ pc["r1"] = "Errored" /\ pc["r2"] = "Errored"
    /\ C11_Class(authorization["r1"]) = "expired"
    /\ C11_Class(authorization["r2"]) = "badsig"
    /\ response["r1"].detail = "Token expired"
    /\ response["r2"].detail = "Invalid token"

\* the PATCH of the charge was answered with a failure
C12_ChargeWriteFailed(r) ==
    \E i \in 1..(Len(trace[r]) - 1) :
        /\ trace[r][i] = "charge_write"
        /\ trace[r][i+1] \in {"patch_rejected", "patch_lost", "patch_unanswered"}

\* the balance read of the charge succeeded and returned no credit
C12_ReadInsufficient(r) ==
    /\ Has(r, "charge_read") /\ ~Has(r, "charge_read_fail")
    /\ ~Has(r, "refund_read")
    /\ current_credits[r] <= 0

\* C12: a request whose charge failed (lookup failure, account not found,
\* insufficient balance or failed balance write) has ended Errored without a
\* refund attempt and without running decode, transform or encode.
C12_ChargeFailStops ==
    \A r \in Requests :
        (\/ Has(r, "charge_read_fail")
         \/ C12_ReadInsufficient(r)
         \/ C12_ChargeWriteFailed(r))
        => /\ pc[r] = "Errored"
           /\ response[r].status \in {300, 400}
           /\ ~Has(r, "refund_call") /\ ~Has(r, "refund_read")
           /\ ~Has(r, "refund_write")
           /\ \A e \in {"decode_ok", "decode_fail", "model_missing",
                        "transform_ok", "transform_fail",
                        "encode_ok", "encode_fail"} : ~Has(r, e)

C12_Witness ==
    \E r \in Requests :
        /\ C12_ChargeWriteFailed(r) /\ Has(r, "patch_rejected")
        /\ pc[r] = "Errored"
        /\ response[r].detail = "Failed to update credits"

\* C13: every refund whose read failed or whose write was answered with a
\* non-success status or a transport error is recorded as a refund failure;
\* a refund is recorded as successful only when the write of balance + 1
\* succeeded.
C13_RefundRecordedTruthfully ==
    \A r \in Requests :
        \A i \in 1..Len(trace[r]) :
            /\ trace[r][i] = "refund_ok" => (i > 1 /\ trace[r][i-1] = "patch_ok")
            /\ (/\ trace[r][i] \in {"patch_rejected", "patch_lost", "patch_unanswered"}
                /\ i > 1 /\ trace[r][i-1] = "refund_write"
                /\ i < Len(trace[r]))
               => trace[r][i+1] = "refund_failed"

\* the credentials C14 speaks of: the prefix with an empty token segment
C14_EmptyToken(a) ==
    /\ ~a.none
    /\ \/ a.s = <<"Bearer", " ">>
       \/ (Len(a.s) >= 3 /\ a.s[1] = "Bearer" /\ a.s[2] = " " /\ a.s[3] = " ")

\* C14: a credential with the "Bearer " prefix and an empty token segment is
\* rejected with the missing-or-malformed reason, as a missing prefix is, and
\* not with the invalid-token reason.
C14_EmptyTokenMalformed ==
    \A r \in Requests :
        (Verified(r) /\ C14_EmptyToken(authorization[r]))
        => /\ pc[r] = "Errored"
           /\ response[r].detail \in
                 {"Missing authorization", "Invalid authorization format"}
           /\ response[r].detail # "Invalid token"

RECURSIVE C15_AfterFirstComma(_)
\* everything that follows the first comma
C15_AfterFirstComma(s) ==
    IF s = <<>> THEN <<>>
    ELSE IF Head(s) = "," THEN Tail(s)
    ELSE C15_AfterFirstComma(Tail(s))

\* C15: for a payload with a comma the text that is base64-decoded is the
\* whole remainder after the first comma, later commas and what follows them
\* included; for a payload without a comma it is the whole payload.
C15_DecodesRemainder ==
    \A r \in Requests :
        (Has(r, "decode_ok") \/ Has(r, "decode_fail")) =>
            b64_text[r] =
                IF \E i \in 1..Len(data_sent[r]) : data_sent[r][i] = ","
                THEN C15_AfterFirstComma(data_sent[r])
                ELSE data_sent[r]

\* C16: as long as every external call returns, every request that reached
\* the handler ends Responded or Errored, and a request that has ended takes
\* no further step: no ledger read or write, no transform call.
C16_TerminatesAndStops ==
    /\ \A r \in Requests : (pc[r] = "auth") ~> Done(r)
    /\ [][\A r \in Requests :
            Done(r) => (pc'[r] = pc[r] /\ trace'[r] = trace[r]
                          /\ response'[r] = response[r])]_vars

C16_Witness ==
    /\ pc["r1"] = "Errored" /\ Has("r1", "refund_failed")
    /\ pc["r2"] = "Responded"

\* C17: in every reachable state, whatever the interleaving of the requests
\* and whatever fails, the ledger balance is a non-negative integer.
C17_BalanceNonNegative ==
    \A u \in Accounts : ledger[u] \in Nat

C17_Witness ==
    /\ ~reliable
    /\ ledger0["u1"] = 1 /\ ledger["u1"] = 0
    /\ \A r \in Requests : Has(r, "charge_ok")
    /\ \E r \in Requests : Has(r, "refund_failed")

\* C18: with the engine loaded and a reliable ledger, under any interleaving
\* of the requests the ledger balance never exceeds its starting value.
C18_NoCreditCreated ==
    (reliable /\ bg_remover = "loaded") =>
        \A u \in Accounts : ledger[u] <= ledger0[u]

====
